---- MODULE Spec2Model ----
(***************************************************************************)
(* Moneybird MCP server: the HTTP request/retry engine (MoneybirdClient),   *)
(* the resource operations built on it and the tool-call handler.           *)
(*                                                                          *)
(* A "call" is one invocation of an entry point (the client's request, a    *)
(* convenience accessor, a list operation or a tool).  Its HTTP attempts    *)
(* are answered by the remote service with a status drawn from a small set. *)
(***************************************************************************)
EXTENDS Integers, Sequences, FiniteSets, TLC

VARIABLES
  variant,     \* which MoneybirdClient class is loaded: "retry" or "plain"
  env,         \* process.env: MONEYBIRD_API_TOKEN, MONEYBIRD_ADMINISTRATION_ID
  clientInstance, \* the module-level singleton of services/client.ts
  constructed, \* how many clients getClient has constructed so far
  client,      \* per call: the MoneybirdClient instance the call runs on
  remote,      \* the collection the remote service answers a 2xx with
  entry,       \* per call: the entry point invoked ("idle" before)
  args,        \* per call: the arguments of the entry point
  method,      \* per call: HTTP method handed to the client
  path,        \* per call: relative path handed to the client
  data,        \* per call: request body handed to the client
  retries,     \* per call: remaining retry count of the current request frame
  sent,        \* per call: the HTTP requests issued so far, in order
  attempts,    \* per call: the status each finished attempt got, in order
  delays,      \* per call: the backoff delays scheduled so far (ms), in order
  progress,    \* per call: the progress interval timer is running
  pc,          \* per call: "idle", "attempt", "wait", "returned", "thrown"
  out          \* per call: what the entry point returned or threw

vars == <<variant, env, clientInstance, constructed, client, remote, entry, args, method, path, data, retries, sent,
          attempts, delays, progress, pc, out>>

----------------------------------------------------------------------------
(* Bounds *)

MaxRetries == 3      \* largest initial retry count handed to request
MaxItems == 3        \* largest small collection the remote holds
MaxPage == 3         \* largest page / perPage option

Calls == {"c1", "c2"}

----------------------------------------------------------------------------
(* Program constants *)

DefaultRetries == 2
BaseDelay == 1000
ChunkSize == 50
NoStatus == 0        \* error.response is undefined: network failure, timeout

----------------------------------------------------------------------------
(* Values *)

\* an optional value is the empty sequence (absent) or a one-element sequence
Absent == <<>>
Some(x) == <<x>>
IsPresent(o) == o # <<>>

\* JavaScript truthiness of an optional number: undefined and 0 are falsy
TruthyNum(o) == IsPresent(o) /\ o[1] # 0

Min(a, b) == IF a < b THEN a ELSE b

RECURSIVE Pow2(_)
Pow2(n) == IF n <= 0 THEN 1 ELSE 2 * Pow2(n - 1)

\* Array.prototype.slice(start, end) for 0 <= start, on a sequence (0-based)
Slice(s, start, end) ==
  LET hi == Min(end, Len(s))
  IN IF start >= hi THEN <<>> ELSE SubSeq(s, start + 1, hi)

\* Math.ceil(m / k) for m >= 0, k >= 1
Ceil(m, k) == (m + k - 1) \div k

NoArgs == [none |-> TRUE]
NoData == [t |-> "absent"]
NoOut == [kind |-> "none"]

Value(v) == [kind |-> "value", val |-> v]
Err(e) == [kind |-> "error", err |-> e]

\* the error object axios rejects the i-th attempt of a call with
AxiosError(i, s) ==
  [name |-> "AxiosError", attempt |-> i, status |-> s,
   message |-> IF s = NoStatus THEN <<"Network Error">>
               ELSE <<"Request failed with status code", s>>]
\* `throw error` where no binding `error` is in scope
ReferenceError ==
  [name |-> "ReferenceError", attempt |-> 0, status |-> NoStatus,
   message |-> <<"error is not defined">>]

----------------------------------------------------------------------------
(* MoneybirdClient: URL building *)

startsWithSlash(p) == Len(p) > 0 /\ p[1] = "/"

\* variant: every leading slash removed
RECURSIVE normalizedPath_allSlashes(_)
normalizedPath_allSlashes(p) ==
  IF startsWithSlash(p) THEN normalizedPath_allSlashes(Tail(p)) ELSE p

normalizedPath(p) == IF startsWithSlash(p) THEN Tail(p) ELSE p

\* new MoneybirdClient(apiToken, administrationId)
MoneybirdClient(apiToken, administrationId) ==
  [apiToken |-> apiToken, administrationId |-> administrationId]

NoClient == [null |-> TRUE]

\* the client the server builds at module load from the environment
moneybirdClient == MoneybirdClient(env.token, env.admin)

RequestUrl(cl, p) == <<"/", cl.administrationId, "/">> \o normalizedPath(p)

\* the HTTP request axios issues: bearer token, method, url and body
HttpRequest(cl, m, p, d) ==
  [auth |-> cl.apiToken, method |-> m, url |-> RequestUrl(cl, p), data |-> d]

\* the retry variant rejects every method but get before the HTTP call
MethodRejected(m) == variant = "retry" /\ m # "get"

\* variant: 400 itself is not taken for a client error
IsClientError_above400(s) == s # NoStatus /\ s > 400 /\ s < 500 /\ s # 429

\* 4xx other than 429: a client error, never retried
IsClientError(s) == s # NoStatus /\ s >= 400 /\ s < 500 /\ s # 429

IsSuccess(s) == s >= 200 /\ s < 300

\* variant: the exponent is the remaining retry count itself
BackoffDelay_byRemaining(r) == BaseDelay * Pow2(r)

\* backoff before the next attempt, from the remaining retry count
BackoffDelay(r) ==
  IF r <= 2 THEN BaseDelay * Pow2(2 - r) ELSE BaseDelay \div Pow2(r - 2)

----------------------------------------------------------------------------
(* Entry points and what each does with the client's result *)

AccessorNames == {"getFinancialAccounts", "getContacts", "getContact",
                  "getSalesInvoices", "getSalesInvoice", "getProducts",
                  "getProjects", "getTimeEntries"}

AccessorPath(name, id) ==
  CASE name = "getFinancialAccounts" -> <<"financial_accounts">>
    [] name = "getContacts" -> <<"contacts">>
    [] name = "getContact" -> <<"contacts", "/">> \o id
    [] name = "getSalesInvoices" -> <<"sales_invoices">>
    [] name = "getSalesInvoice" -> <<"sales_invoices", "/">> \o id
    [] name = "getProducts" -> <<"products">>
    [] name = "getProjects" -> <<"projects">>
    [] name = "getTimeEntries" -> <<"time_entries">>

----------------------------------------------------------------------------
(* Resource operations: list *)

TruthyStr(o) == IsPresent(o) /\ o[1] # ""
TruthyBool(o) == IsPresent(o) /\ o[1]

ListNames == {"listContacts", "listInvoices", "listProjects", "listProducts",
              "listFinancialAccounts", "listTimeEntries"}

\* the key the operation returns its items under
ItemsKey(name) ==
  CASE name = "listContacts" -> "contacts"
    [] name = "listInvoices" -> "invoices"
    [] name = "listProjects" -> "projects"
    [] name = "listProducts" -> "products"
    [] name = "listFinancialAccounts" -> "accounts"
    [] name = "listTimeEntries" -> "timeEntries"

\* variant: only filter and query select the filter endpoint
FilterMode_filterOrQuery(name, o) ==
  /\ name = "listContacts"
  /\ (TruthyStr(o.filter) \/ TruthyStr(o.query))

\* listContacts: any filtering parameter sends the call to the filter endpoint
FilterMode(name, o) ==
  /\ name = "listContacts"
  /\ \/ TruthyStr(o.filter) \/ TruthyStr(o.query)
     \/ TruthyBool(o.include_archived) \/ TruthyStr(o.todo)

\* the query parameters of the filter endpoint, in insertion order
QueryParams(o) ==
  (IF TruthyNum(o.page) THEN <<<<"page", o.page[1]>>>> ELSE <<>>)
  \o (IF TruthyNum(o.perPage) THEN <<<<"per_page", o.perPage[1]>>>> ELSE <<>>)
  \o (IF TruthyStr(o.filter) THEN <<<<"filter", o.filter[1]>>>> ELSE <<>>)
  \o (IF TruthyStr(o.query) THEN <<<<"query", o.query[1]>>>> ELSE <<>>)
  \o (IF TruthyBool(o.include_archived) THEN <<<<"include_archived", "true">>>> ELSE <<>>)
  \o (IF TruthyStr(o.todo) THEN <<<<"todo", o.todo[1]>>>> ELSE <<>>)

\* the relative path the list operation fetches
ListPath(name, o) ==
  CASE name = "listContacts" ->
         IF FilterMode(name, o)
           THEN <<"contacts", "/", "filter?">> \o QueryParams(o)
           ELSE AccessorPath("getContacts", <<>>)
    [] name = "listInvoices" -> AccessorPath("getSalesInvoices", <<>>)
    [] name = "listProjects" -> AccessorPath("getProjects", <<>>)
    [] name = "listProducts" -> AccessorPath("getProducts", <<>>)
    [] name = "listFinancialAccounts" -> AccessorPath("getFinancialAccounts", <<>>)
    [] name = "listTimeEntries" -> AccessorPath("getTimeEntries", <<>>)

\* variant: 'all' is compared with the state field like any other value
StateFilter_allIsAState(items, o) ==
  IF TruthyStr(o.state)
    THEN SelectSeq(items, LAMBDA x : x.state = o.state[1])
    ELSE items

\* filter by state (listInvoices, listProjects): absent and 'all' keep all
StateFilter(items, o) ==
  IF TruthyStr(o.state) /\ o.state[1] # "all"
    THEN SelectSeq(items, LAMBDA x : x.state = o.state[1])
    ELSE items

\* listTimeEntries: projectId, then startDate, then endDate
TimeEntryFilter(items, o) ==
  LET byProject == IF TruthyStr(o.projectId)
                     THEN SelectSeq(items, LAMBDA x : x.project_id = o.projectId[1])
                     ELSE items
      byStart == IF IsPresent(o.startDate)
                   THEN SelectSeq(byProject, LAMBDA x : x.started_at >= o.startDate[1])
                   ELSE byProject
  IN IF IsPresent(o.endDate)
       THEN SelectSeq(byStart, LAMBDA x : x.started_at <= o.endDate[1])
       ELSE byStart

\* the filters the operation applies to the fetched collection
Filtered(name, items, o) ==
  CASE name \in {"listInvoices", "listProjects"} -> StateFilter(items, o)
    [] name = "listTimeEntries" -> TimeEntryFilter(items, o)
    [] OTHER -> items

\* variant: pages counted from 0
Paginate_zeroBased(key, items, o) ==
  IF TruthyNum(o.page) /\ TruthyNum(o.perPage)
    THEN LET startIndex == o.page[1] * o.perPage[1]
             endIndex == startIndex + o.perPage[1]
         IN (key :> Slice(items, startIndex, endIndex))
              @@ [page |-> o.page[1], perPage |-> o.perPage[1],
                  totalCount |-> Len(items),
                  totalPages |-> Ceil(Len(items), o.perPage[1])]
    ELSE (key :> items)

\* variant: a page alone paginates, with a fallback page size
Paginate_pageOnly(key, items, o) ==
  IF TruthyNum(o.page)
    THEN LET perPage == IF TruthyNum(o.perPage) THEN o.perPage[1] ELSE 1
             startIndex == (o.page[1] - 1) * perPage
             endIndex == startIndex + perPage
         IN (key :> Slice(items, startIndex, endIndex))
              @@ [page |-> o.page[1], perPage |-> perPage,
                  totalCount |-> Len(items),
                  totalPages |-> Ceil(Len(items), perPage)]
    ELSE (key :> items)

\* "Basic pagination if requested": both page and perPage truthy
Paginate(key, items, o) ==
  IF TruthyNum(o.page) /\ TruthyNum(o.perPage)
    THEN LET startIndex == (o.page[1] - 1) * o.perPage[1]
             endIndex == startIndex + o.perPage[1]
         IN (key :> Slice(items, startIndex, endIndex))
              @@ [page |-> o.page[1], perPage |-> o.perPage[1],
                  totalCount |-> Len(items),
                  totalPages |-> Ceil(Len(items), o.perPage[1])]
    ELSE (key :> items)

\* variant: the page is cut before the filters are applied
ListResult_paginateFirst(name, o, fetched) ==
  IF FilterMode(name, o)
    THEN (ItemsKey(name) :> fetched) @@ [filtered |-> TRUE, filterCriteria |-> o]
    ELSE LET r == Paginate(ItemsKey(name), fetched, o)
         IN [r EXCEPT ![ItemsKey(name)] = Filtered(name, @, o)]

\* variant: the criteria echo only the four filtering options
ListResult_criteriaOnly(name, o, fetched) ==
  IF FilterMode(name, o)
    THEN (ItemsKey(name) :> fetched)
           @@ [filtered |-> TRUE,
               filterCriteria |-> [k \in {"filter", "query", "include_archived", "todo"} |-> o[k]]]
    ELSE Paginate(ItemsKey(name), Filtered(name, fetched, o), o)

\* what a list operation returns for the fetched collection
ListResult(name, o, fetched) ==
  IF FilterMode(name, o)
    THEN (ItemsKey(name) :> fetched) @@ [filtered |-> TRUE, filterCriteria |-> o]
    ELSE Paginate(ItemsKey(name), Filtered(name, fetched, o), o)

\* new Error(msg)
PlainError(msg) ==
  [name |-> "Error", attempt |-> 0, status |-> NoStatus, message |-> msg]

\* destructuring or a method call on undefined
TypeError ==
  [name |-> "TypeError", attempt |-> 0, status |-> NoStatus,
   message |-> <<"Cannot read properties of undefined">>]

NoParams == [token |-> "", admin |-> ""]

\* getClient(params): the stored instance, else a new one from the params
\* or the environment; throws when a credential is missing
getClient(params) ==
  LET apiToken == IF params.token # "" THEN params.token ELSE env.token
      administrationId == IF params.admin # "" THEN params.admin ELSE env.admin
  IN IF clientInstance # NoClient THEN Value(clientInstance)
     ELSE IF apiToken = "" THEN Err(PlainError(<<"MONEYBIRD_API_TOKEN is required">>))
     ELSE IF administrationId = ""
       THEN Err(PlainError(<<"MONEYBIRD_ADMINISTRATION_ID is required">>))
     ELSE Value(MoneybirdClient(apiToken, administrationId))

\* the number of clients a getClient(params) call constructs: one when no
\* instance is stored and both credentials are found
Constructs(params) ==
  IF clientInstance = NoClient /\ getClient(params).kind = "value" THEN 1 ELSE 0

----------------------------------------------------------------------------
(* Resource operations: create, update, get by collection scan *)

CreateNames == {"createContact", "createInvoice", "createProject",
                "createProduct", "createTimeEntry"}

UpdateNames == {"updateContact", "updateInvoice", "updateProject",
                "updateProduct", "updateTimeEntry"}

WriteNames == CreateNames \cup UpdateNames

\* the collection path of the resource the operation writes
WriteCollection(name) ==
  CASE name \in {"createContact", "updateContact"} -> "contacts"
    [] name \in {"createInvoice", "updateInvoice"} -> "sales_invoices"
    [] name \in {"createProject", "updateProject"} -> "projects"
    [] name \in {"createProduct", "updateProduct"} -> "products"
    [] name \in {"createTimeEntry", "updateTimeEntry"} -> "time_entries"

\* the key the operation wraps the caller's data under
WriteKey(name) ==
  CASE name \in {"createContact", "updateContact"} -> "contact"
    [] name \in {"createInvoice", "updateInvoice"} -> "sales_invoice"
    [] name \in {"createProject", "updateProject"} -> "project"
    [] name \in {"createProduct", "updateProduct"} -> "product"
    [] name \in {"createTimeEntry", "updateTimeEntry"} -> "time_entry"

WriteMethod(name) == IF name \in CreateNames THEN "post" ELSE "put"

\* 'contacts' for create, `contacts/${id}` for update
WritePath(name, id) ==
  IF name \in CreateNames THEN <<WriteCollection(name)>>
  ELSE <<WriteCollection(name), "/">> \o id

\* { contact: contactData }
WriteBody(name, d) == WriteKey(name) :> d

ScanNames == {"getProject", "getProduct", "getFinancialAccount", "getTimeEntry"}

\* the accessor that fetches the collection the operation scans
ScanAccessor(name) ==
  CASE name = "getProject" -> "getProjects"
    [] name = "getProduct" -> "getProducts"
    [] name = "getFinancialAccount" -> "getFinancialAccounts"
    [] name = "getTimeEntry" -> "getTimeEntries"

ScanLabel(name) ==
  CASE name = "getProject" -> "Project"
    [] name = "getProduct" -> "Product"
    [] name = "getFinancialAccount" -> "Financial account"
    [] name = "getTimeEntry" -> "Time entry"

\* items.find(x => x.id === id), else throw new Error(`... not found`)
ScanResult(name, id, fetched) ==
  LET hits == {i \in 1..Len(fetched) : fetched[i].id = id}
  IN IF hits = {}
       THEN Err(PlainError(<<ScanLabel(name), " with ID ", id, " not found">>))
       ELSE Value(fetched[CHOOSE i \in hits : \A j \in hits : i <= j])

----------------------------------------------------------------------------
(* Tool-call handler *)

ListTools == {"list_contacts", "list_sales_invoices", "list_financial_accounts",
              "list_products", "list_projects", "list_time_entries"}

GetTools == {"get_contact", "get_sales_invoice"}

\* the names the ListTools handler lists
ToolCatalog ==
  {"list_contacts", "get_contact", "list_sales_invoices", "get_sales_invoice",
   "list_financial_accounts", "list_products", "list_projects",
   "list_time_entries", "moneybird_request", "moneybird_assistant"}

\* the tools array the ListTools handler returns, in its order
ListedTools ==
  <<"list_contacts", "get_contact", "list_sales_invoices", "get_sales_invoice",
    "list_financial_accounts", "list_products", "list_projects",
    "list_time_entries", "moneybird_request", "moneybird_assistant">>

\* the names the switch of the handler has a case for
HandledTools ==
  ListTools \cup GetTools \cup {"moneybird_request", "moneybird_assistant"}

\* the accessor a list or get tool calls
ToolAccessor(name) ==
  CASE name = "list_contacts" -> "getContacts"
    [] name = "get_contact" -> "getContact"
    [] name = "list_sales_invoices" -> "getSalesInvoices"
    [] name = "get_sales_invoice" -> "getSalesInvoice"
    [] name = "list_financial_accounts" -> "getFinancialAccounts"
    [] name = "list_products" -> "getProducts"
    [] name = "list_projects" -> "getProjects"
    [] name = "list_time_entries" -> "getTimeEntries"

\* list_contacts starts the progress interval timer
StartsProgress(e) == e = "list_contacts"

\* a value handed to chunkResponse: an array with its items, or not an array
JsArray(items) == [isArray |-> TRUE, items |-> items]

NotArray == [isArray |-> FALSE, items |-> <<>>]

DefaultMaxSize == 100

\* the for loop of chunkResponse from index i on
RECURSIVE chunksFrom(_, _, _)
chunksFrom(d, maxSize, i) ==
  IF i >= Len(d) THEN <<>>
  ELSE <<JsArray(Slice(d, i, i + maxSize))>> \o chunksFrom(d, maxSize, i + maxSize)

\* variant: only full chunks are pushed
chunkResponse_fullChunksOnly(d, maxSize) ==
  IF ~d.isArray \/ Len(d.items) <= maxSize THEN <<d>>
  ELSE chunksFrom(SubSeq(d.items, 1, (Len(d.items) \div maxSize) * maxSize), maxSize, 0)

\* chunkResponse(data, maxSize)
chunkResponse(d, maxSize) ==
  IF ~d.isArray \/ Len(d.items) <= maxSize THEN <<d>>
  ELSE chunksFrom(d.items, maxSize, 0)

\* the fields the contact formatter keeps (of the fields the model carries)
formatContact(x) == [id |-> x.id]

\* the fields the invoice formatter keeps (of the fields the model carries)
formatInvoice(x) == [id |-> x.id, state |-> x.state]

Map(s, F(_)) == [i \in 1..Len(s) |-> F(s[i])]

\* JSON.stringify(v, null, 2): a text that serialises v
PrettyJson(v) == [json |-> v]

Envelope(text) == [content |-> <<[type |-> "text", text |-> text]>>]

\* variant: the error result does not carry isError
ErrorEnvelope_unflagged(text) == [content |-> <<[type |-> "text", text |-> text]>>]

ErrorEnvelope(text) ==
  [content |-> <<[type |-> "text", text |-> text]>>, isError |-> TRUE]

\* the text of a list tool for the fetched collection
ListToolText(name, fetched) ==
  CASE name = "list_contacts" ->
         LET formattedContacts == Map(fetched, formatContact)
             chunks == chunkResponse(JsArray(formattedContacts), ChunkSize)
         IN IF Len(chunks) > 1
              THEN [retrieved |-> Len(formattedContacts),
                    showing |-> Len(chunks[1].items),
                    json |-> chunks[1].items,
                    notice |-> "Response truncated for stability. Use pagination to see more."]
              ELSE PrettyJson(formattedContacts)
    [] name = "list_sales_invoices" -> PrettyJson(Map(fetched, formatInvoice))
    [] OTHER -> PrettyJson(fetched)

\* error.response of an axios error that carries an HTTP status
HasResponse(e) == e.name = "AxiosError" /\ e.status # NoStatus

ErrorResponse(e) == [status |-> e.status, data |-> [error |-> e.status]]

MoneybirdErrorNames ==
  {"MoneybirdError", "MoneybirdValidationError", "MoneybirdResourceNotFoundError",
   "MoneybirdAuthenticationError", "MoneybirdPermissionError",
   "MoneybirdRateLimitError", "MoneybirdConflictError"}

isMoneybirdError(e) == e.name \in MoneybirdErrorNames

formatMoneybirdError(e) ==
  IF e.name = "MoneybirdRateLimitError"
    THEN [rateLimit |-> e.message, resetsAt |-> e.resetAt]
  ELSE IF "response" \in DOMAIN e
    THEN [apiError |-> e.message, status |-> e.response.status,
          details |-> e.response.data]
  ELSE [apiError |-> e.message]

\* the catch block of the handler: the text of the error result
ErrorText(name, e) ==
  IF isMoneybirdError(e) THEN formatMoneybirdError(e)
  ELSE IF HasResponse(e)
    THEN [failed |-> name, message |-> e.message, details |-> ErrorResponse(e).data]
  ELSE [failed |-> name, message |-> e.message]

\* what the handler returns once its client call settled with res
ToolResult(name, res) ==
  IF res.kind = "error" THEN ErrorEnvelope(ErrorText(name, res.err))
  ELSE IF name \in ListTools THEN Envelope(ListToolText(name, res.val))
  ELSE Envelope(PrettyJson(res.val))

AssistantText == "You are a financial assistant that helps users with their Moneybird accounting software."

\* moneybird_request: a string body is parsed as JSON when it is valid JSON
\* variant: a string that is not valid JSON is dropped
processedData_dropInvalid(d) ==
  IF d.t = "str" THEN (IF IsPresent(d.parse) THEN d.parse[1] ELSE NoData) ELSE d

processedData(d) ==
  IF d.t = "str" /\ IsPresent(d.parse) THEN d.parse[1] ELSE d

\* variant: the handler has no catch block, a failure leaves it as a throw
Continue_uncaught(e, a, res) ==
  IF res.kind = "error" THEN res
  ELSE IF e \in HandledTools THEN Value(ToolResult(e, res))
  ELSE IF e \in ListNames THEN Value(ListResult(e, a, res.val))
  ELSE IF e \in ScanNames THEN ScanResult(e, a.id, res.val)
  ELSE res

\* the result of the entry point, from the client's result
Continue(e, a, res) ==
  IF e \in HandledTools THEN Value(ToolResult(e, res))
  ELSE IF res.kind = "error" THEN res
  ELSE IF e \in ListNames THEN Value(ListResult(e, a, res.val))
  ELSE IF e \in ScanNames THEN ScanResult(e, a.id, res.val)
  ELSE res

\* variant: the timer is cleared after a successful fetch only
Settle_timerLeftOnError(c, e, a, res) ==
  LET r == Continue(e, a, res)
  IN /\ out' = [out EXCEPT ![c] = r]
     /\ pc' = [pc EXCEPT ![c] = IF r.kind = "error" THEN "thrown" ELSE "returned"]
     /\ progress' = [progress EXCEPT ![c] = IF res.kind = "error" THEN @ ELSE FALSE]

\* the client call of call c settles with res: the entry point completes
Settle(c, e, a, res) ==
  LET r == Continue(e, a, res)
  IN /\ out' = [out EXCEPT ![c] = r]
     /\ pc' = [pc EXCEPT ![c] = IF r.kind = "error" THEN "thrown" ELSE "returned"]
     /\ progress' = [progress EXCEPT ![c] = FALSE]

\* one frame of MoneybirdClient.request up to its HTTP call
requestFrame(c, cl, e, a, m, p, d) ==
  IF MethodRejected(m)
    THEN /\ Settle(c, e, a, Err(ReferenceError))
         /\ sent' = sent
    ELSE /\ sent' = [sent EXCEPT ![c] = Append(@, HttpRequest(cl, m, p, d))]
         /\ pc' = [pc EXCEPT ![c] = "attempt"]
         /\ out' = out
         /\ progress' = [progress EXCEPT ![c] = StartsProgress(e)]

\* an entry point hands (m, p, d, n) to the client instance cl
clientCall(c, cl, e, a, m, p, d, n) ==
  /\ pc[c] = "idle"
  /\ client' = [client EXCEPT ![c] = cl]
  /\ entry' = [entry EXCEPT ![c] = e]
  /\ args' = [args EXCEPT ![c] = a]
  /\ method' = [method EXCEPT ![c] = m]
  /\ path' = [path EXCEPT ![c] = p]
  /\ data' = [data EXCEPT ![c] = d]
  /\ retries' = [retries EXCEPT ![c] = IF variant = "retry" THEN n ELSE 0]
  /\ requestFrame(c, cl, e, a, m, p, d)
  /\ UNCHANGED <<variant, env, remote, attempts, delays>>

\* MoneybirdClient.request(method, path, data, retries)
request(c, cl, m, p, d, n) ==
  /\ clientCall(c, cl, "request", [retries |-> n], m, p, d, n)
  /\ UNCHANGED <<clientInstance, constructed>>

\* variant: the accessor issues its request without retries
accessor_noRetry(c, cl, name, id) ==
  /\ clientCall(c, cl, name, [id |-> id], "get", AccessorPath(name, id),
                NoData, 0)
  /\ UNCHANGED <<clientInstance, constructed>>

\* a convenience accessor: request('get', <fixed path>) with the default
\* retry count (retry variant), client.get(<url>) (plain variant)
accessor(c, cl, name, id) ==
  /\ clientCall(c, cl, name, [id |-> id], "get", AccessorPath(name, id),
                NoData, DefaultRetries)
  /\ UNCHANGED <<clientInstance, constructed>>

\* a list operation: getClient(), fetch the collection, filter and paginate
listOperation(c, name, o) ==
  LET g == getClient(NoParams)
  IN IF g.kind = "error"
       THEN /\ pc[c] = "idle"
            /\ entry' = [entry EXCEPT ![c] = name]
            /\ args' = [args EXCEPT ![c] = o]
            /\ out' = [out EXCEPT ![c] = g]
            /\ pc' = [pc EXCEPT ![c] = "thrown"]
            /\ UNCHANGED <<variant, env, clientInstance, constructed, client, remote, method,
                           path, data, retries, sent, attempts, delays, progress>>
       ELSE /\ clientInstance' = g.val
            /\ constructed' = constructed + Constructs(NoParams)
            /\ clientCall(c, g.val, name, o, "get", ListPath(name, o), NoData,
                          DefaultRetries)

\* an operation over the shared client: getClient(), then one client call
operation(c, name, a, m, p, d) ==
  LET g == getClient(NoParams)
  IN IF g.kind = "error"
       THEN /\ pc[c] = "idle"
            /\ entry' = [entry EXCEPT ![c] = name]
            /\ args' = [args EXCEPT ![c] = a]
            /\ out' = [out EXCEPT ![c] = g]
            /\ pc' = [pc EXCEPT ![c] = "thrown"]
            /\ UNCHANGED <<variant, env, clientInstance, constructed, client, remote, method,
                           path, data, retries, sent, attempts, delays, progress>>
       ELSE /\ clientInstance' = g.val
            /\ constructed' = constructed + Constructs(NoParams)
            /\ clientCall(c, g.val, name, a, m, p, d, DefaultRetries)

\* createX(data) and updateX(id, data): request(post | put, path, {x: data})
writeOperation(c, name, id, d) ==
  operation(c, name, [id |-> id, data |-> d], WriteMethod(name),
            WritePath(name, id), WriteBody(name, d))

\* getX(id) of a resource without a single-entity accessor: fetch the
\* collection, then find the entity
scanOperation(c, name, id) ==
  operation(c, name, [id |-> id], "get", AccessorPath(ScanAccessor(name), <<>>),
            NoData)

\* variant: parameters that name a credential construct a new client
getClientCall_paramsWin(c, params) ==
  LET fresh == [token |-> IF params.token # "" THEN params.token ELSE env.token,
                admin |-> IF params.admin # "" THEN params.admin ELSE env.admin]
      g == IF params # NoParams /\ fresh.token # "" /\ fresh.admin # ""
             THEN Value(MoneybirdClient(fresh.token, fresh.admin))
             ELSE getClient(params)
  IN /\ entry' = [entry EXCEPT ![c] = "getClient"]
     /\ args' = [args EXCEPT ![c] = params]
     /\ out' = [out EXCEPT ![c] = g]
     /\ pc' = [pc EXCEPT ![c] = IF g.kind = "error" THEN "thrown" ELSE "returned"]
     /\ clientInstance' = IF g.kind = "error" THEN clientInstance ELSE g.val
     /\ constructed' = IF g.kind = "value" /\ g.val # clientInstance
                         THEN constructed + 1 ELSE constructed
     /\ UNCHANGED <<variant, env, client, remote, method, path, data, retries,
                    sent, attempts, delays, progress>>

\* a caller invokes getClient(params) and keeps what it returned or threw
getClientCall(c, params) ==
  LET g == getClient(params)
  IN /\ entry' = [entry EXCEPT ![c] = "getClient"]
     /\ args' = [args EXCEPT ![c] = params]
     /\ out' = [out EXCEPT ![c] = g]
     /\ pc' = [pc EXCEPT ![c] = IF g.kind = "error" THEN "thrown" ELSE "returned"]
     /\ clientInstance' = IF g.kind = "error" THEN clientInstance ELSE g.val
     /\ constructed' = constructed + Constructs(params)
     /\ UNCHANGED <<variant, env, client, remote, method, path, data, retries,
                    sent, attempts, delays, progress>>

\* resetClient(): clientInstance = null
resetClient ==
  /\ clientInstance' = NoClient
  /\ UNCHANGED <<variant, env, constructed, client, remote, entry, args, method,
                 path, data, retries, sent, attempts, delays, progress, pc, out>>

\* setClient(instance): clientInstance = instance
setClient(instance) ==
  /\ clientInstance' = instance
  /\ UNCHANGED <<variant, env, constructed, client, remote, entry, args, method,
                 path, data, retries, sent, attempts, delays, progress, pc, out>>

\* a caller applies chunkResponse(data, maxSize); maxSize defaults to 100
chunkCall(c, d, maxSize) ==
  /\ pc[c] = "idle"
  /\ entry' = [entry EXCEPT ![c] = "chunkResponse"]
  /\ args' = [args EXCEPT ![c] = [data |-> d, maxSize |-> maxSize]]
  /\ out' = [out EXCEPT ![c] =
               Value(chunkResponse(d, IF IsPresent(maxSize) THEN maxSize[1]
                                      ELSE DefaultMaxSize))]
  /\ pc' = [pc EXCEPT ![c] = "returned"]
  /\ UNCHANGED <<variant, env, clientInstance, constructed, client, remote, method,
                 path, data, retries, sent, attempts, delays, progress>>

\* the handler returns without calling the client
toolReturns(c, name, a, envelope) ==
  /\ pc[c] = "idle"
  /\ entry' = [entry EXCEPT ![c] = name]
  /\ args' = [args EXCEPT ![c] = a]
  /\ out' = [out EXCEPT ![c] = Value(envelope)]
  /\ pc' = [pc EXCEPT ![c] = "returned"]
  /\ UNCHANGED <<variant, env, clientInstance, constructed, client, remote, method, path,
                 data, retries, sent, attempts, delays, progress>>

ArgsUndefined == [undefined |-> TRUE]

\* const { contact_id } = args: undefined when the key is missing, and
\* `contacts/${undefined}` is "contacts/undefined"
IdArgument(a) == IF "id" \in DOMAIN a THEN a.id ELSE <<"undefined">>

\* the properties the inputSchema of the tool declares
SchemaProperties(name) ==
  CASE name \in {"list_contacts", "list_sales_invoices"} -> {"page", "perPage"}
    [] name \in GetTools -> {"id"}
    [] name = "moneybird_request" -> {"method", "path", "data"}
    [] OTHER -> {}

\* the properties the inputSchema of the tool requires
SchemaRequired(name) ==
  CASE name \in GetTools -> {"id"}
    [] name = "moneybird_request" -> {"method", "path"}
    [] OTHER -> {}

\* variant: the switch has no case for moneybird_assistant
toolCall_noAssistant(c, name, a) ==
  /\ UNCHANGED <<clientInstance, constructed>>
  /\ CASE name \in ListTools ->
            clientCall(c, moneybirdClient, name, a, "get",
                       AccessorPath(ToolAccessor(name), <<>>), NoData, DefaultRetries)
       [] name \in GetTools ->
            IF a = ArgsUndefined
              THEN toolReturns(c, name, a, ErrorEnvelope(ErrorText(name, TypeError)))
              ELSE clientCall(c, moneybirdClient, name, a, "get",
                              AccessorPath(ToolAccessor(name), IdArgument(a)),
                              NoData, DefaultRetries)
       [] name = "moneybird_request" ->
            IF a = ArgsUndefined
              THEN toolReturns(c, name, a, ErrorEnvelope(ErrorText(name, TypeError)))
              ELSE clientCall(c, moneybirdClient, name, a, a.method, a.path,
                              processedData(a.data), DefaultRetries)
       [] OTHER ->
            toolReturns(c, name, a,
              ErrorEnvelope(ErrorText(name, PlainError(<<"Tool not found: ", name>>))))

\* the CallTool request handler
toolCall(c, name, a) ==
  /\ UNCHANGED <<clientInstance, constructed>>
  /\ CASE name \in ListTools ->
            clientCall(c, moneybirdClient, name, a, "get",
                       AccessorPath(ToolAccessor(name), <<>>), NoData, DefaultRetries)
       [] name \in GetTools ->
            IF a = ArgsUndefined
              THEN toolReturns(c, name, a, ErrorEnvelope(ErrorText(name, TypeError)))
              ELSE clientCall(c, moneybirdClient, name, a, "get",
                              AccessorPath(ToolAccessor(name), IdArgument(a)),
                              NoData, DefaultRetries)
       [] name = "moneybird_request" ->
            IF a = ArgsUndefined
              THEN toolReturns(c, name, a, ErrorEnvelope(ErrorText(name, TypeError)))
              ELSE clientCall(c, moneybirdClient, name, a, a.method, a.path,
                              processedData(a.data), DefaultRetries)
       [] name = "moneybird_assistant" ->
            toolReturns(c, name, a, Envelope(AssistantText))
       [] OTHER ->
            toolReturns(c, name, a,
              ErrorEnvelope(ErrorText(name, PlainError(<<"Tool not found: ", name>>))))

\* variant: the error of the first attempt is raised
rethrow_first(c, e) == AxiosError(1, (attempts'[c])[1])

\* `throw error` in the catch block of request: the caught error itself
rethrow(c, e) == e

\* variant: a retry is made while the remaining count is not negative
HttpRespond_oneMore(c, s) ==
  /\ pc[c] = "attempt"
  /\ attempts' = [attempts EXCEPT ![c] = Append(@, s)]
  /\ LET e == AxiosError(Len(attempts[c]) + 1, s)
     IN IF IsSuccess(s)
          THEN Settle(c, entry[c], args[c], Value(remote)) /\ delays' = delays
        ELSE IF variant = "plain" \/ IsClientError(s)
          THEN Settle(c, entry[c], args[c], Err(rethrow(c, e))) /\ delays' = delays
        ELSE IF retries[c] >= 0
          THEN /\ delays' = [delays EXCEPT ![c] = Append(@, BackoffDelay(retries[c]))]
               /\ pc' = [pc EXCEPT ![c] = "wait"]
               /\ UNCHANGED <<out, progress>>
        ELSE Settle(c, entry[c], args[c], Err(rethrow(c, e))) /\ delays' = delays
  /\ UNCHANGED <<variant, env, clientInstance, constructed, client, remote, entry, args,
                 method, path, data, retries, sent>>

\* the remote service answers the attempt in flight with status s
HttpRespond(c, s) ==
  /\ pc[c] = "attempt"
  /\ attempts' = [attempts EXCEPT ![c] = Append(@, s)]
  /\ LET e == AxiosError(Len(attempts[c]) + 1, s)
     IN IF IsSuccess(s)
          THEN Settle(c, entry[c], args[c], Value(remote)) /\ delays' = delays
        ELSE IF variant = "plain" \/ IsClientError(s)
          THEN Settle(c, entry[c], args[c], Err(rethrow(c, e))) /\ delays' = delays
        ELSE IF retries[c] > 0
          THEN /\ delays' = [delays EXCEPT ![c] = Append(@, BackoffDelay(retries[c]))]
               /\ pc' = [pc EXCEPT ![c] = "wait"]
               /\ UNCHANGED <<out, progress>>
        ELSE Settle(c, entry[c], args[c], Err(rethrow(c, e))) /\ delays' = delays
  /\ UNCHANGED <<variant, env, clientInstance, constructed, client, remote, entry, args,
                 method, path, data, retries, sent>>

\* variant: the retry counter is a field of the shared client
BackoffElapsed_sharedCounter(c) ==
  /\ pc[c] = "wait"
  /\ retries' = [d \in Calls |-> retries[c] - 1]
  /\ requestFrame(c, client[c], entry[c], args[c], method[c], path[c], data[c])
  /\ UNCHANGED <<variant, env, clientInstance, constructed, client, remote, entry, args,
                 method, path, data, attempts, delays>>

\* the backoff delay elapsed: request(method, path, data, retries - 1)
BackoffElapsed(c) ==
  /\ pc[c] = "wait"
  /\ retries' = [retries EXCEPT ![c] = @ - 1]
  /\ requestFrame(c, client[c], entry[c], args[c], method[c], path[c], data[c])
  /\ UNCHANGED <<variant, env, clientInstance, constructed, client, remote, entry, args,
                 method, path, data, attempts, delays>>

----------------------------------------------------------------------------
(* Inputs *)

Methods == {"get", "post", "put", "delete"}

PathTokens == {"/", "contacts"}
MaxPathLen == 3
Paths == UNION {[1..n -> PathTokens] : n \in 0..MaxPathLen}

Ids == {<<"7">>}

Bodies == {NoData, [t |-> "obj"]}

Statuses == {200, 304, 400, 404, 429, 499, 500, NoStatus}

\* an entity of a collection; dates are day numbers, not in id order
Item(i, st) ==
  [id |-> i, state |-> st, project_id |-> IF st = "open" THEN "p1" ELSE "p2",
   started_at |-> IF i % 2 = 1 THEN i + 1 ELSE i - 1]

FullEnv == [token |-> "tok", admin |-> "adm"]

IdleCalls ==
  /\ clientInstance = NoClient
  /\ constructed = 0
  /\ client = [c \in Calls |-> NoClient]
  /\ entry = [c \in Calls |-> "idle"]
  /\ args = [c \in Calls |-> NoArgs]
  /\ method = [c \in Calls |-> "get"]
  /\ path = [c \in Calls |-> <<>>]
  /\ data = [c \in Calls |-> NoData]
  /\ retries = [c \in Calls |-> 0]
  /\ sent = [c \in Calls |-> <<>>]
  /\ attempts = [c \in Calls |-> <<>>]
  /\ delays = [c \in Calls |-> <<>>]
  /\ progress = [c \in Calls |-> FALSE]
  /\ pc = [c \in Calls |-> "idle"]
  /\ out = [c \in Calls |-> NoOut]

----------------------------------------------------------------------------
(* Spec: one call of the client (request or an accessor) *)

Init ==
  /\ variant \in {"retry", "plain"}
  /\ env = FullEnv
  /\ remote = <<Item(1, "open")>>
  /\ IdleCalls

RequestCall ==
  \E m \in Methods, p \in Paths, d \in Bodies, n \in 0..MaxRetries :
    request("c1", moneybirdClient, m, p, d, n)

AccessorCall ==
  \E name \in AccessorNames, id \in Ids :
    accessor("c1", moneybirdClient, name, id)

Respond == \E s \in Statuses : HttpRespond("c1", s)

Backoff == BackoffElapsed("c1")

Next == RequestCall \/ AccessorCall \/ Respond \/ Backoff

Spec == Init /\ [][Next]_vars

----------------------------------------------------------------------------
(* SpecPair: two calls on the one client, to compare one call with another *)

PairMethods == {"get", "post"}

PairPaths ==
  {AccessorPath(name, id) : name \in AccessorNames, id \in Ids}
    \cup {<<"/", "contacts">>, <<"/", "/", "contacts">>}

PairStatuses == {200, 404, 500}

PairRequestCall ==
  \E c \in Calls, m \in PairMethods, p \in PairPaths :
    request(c, moneybirdClient, m, p, NoData, DefaultRetries)

PairAccessorCall ==
  \E c \in Calls, name \in AccessorNames, id \in Ids :
    accessor(c, moneybirdClient, name, id)

PairRespond == \E c \in Calls, s \in PairStatuses : HttpRespond(c, s)

PairBackoff == \E c \in Calls : BackoffElapsed(c)

NextPair == PairRequestCall \/ PairAccessorCall \/ PairRespond \/ PairBackoff

SpecPair == Init /\ [][NextPair]_vars

----------------------------------------------------------------------------
(* Properties of the request engine *)

Done(c) == pc[c] \in {"returned", "thrown"}

Last(s) == s[Len(s)]

IsPrefix(s, t) == Len(s) <= Len(t) /\ SubSeq(t, 1, Len(s)) = s

\* C1: an HTTP attempt that fails with a status in 400..499 other than 429
\* is the call's last attempt: no backoff delay is scheduled after it, no
\* further request is issued and its error is raised to the caller, whatever
\* the remaining retry count; when it is the first attempt, exactly one
\* attempt is made.
C1_ClientErrorNotRetried ==
  \A c \in Calls : \A i \in 1..Len(attempts[c]) :
    LET s == attempts[c][i]
    IN (s >= 400 /\ s <= 499 /\ s # 429) =>
         /\ i = Len(attempts[c])
         /\ Len(sent[c]) = i
         /\ Len(delays[c]) = i - 1
         /\ pc[c] = "thrown"
         /\ out[c] = Err(AxiosError(i, s))

C1_Witness ==
  \E c \in Calls :
    /\ variant = "retry"
    /\ retries[c] > 0
    /\ attempts[c] = <<404>>
    /\ pc[c] = "thrown"

RetryableStatus(s) == s = 429 \/ s >= 500 \/ s = NoStatus

AllRetryable(c) == \A i \in 1..Len(attempts[c]) : RetryableStatus(attempts[c][i])

DefaultRetryCall(c) ==
  /\ variant = "retry"
  /\ Len(sent[c]) >= 1
  /\ \/ entry[c] \in AccessorNames
     \/ entry[c] = "request" /\ args[c].retries = DefaultRetries

C3_LastErrorSurfaced ==
  \A c \in Calls :
    (pc[c] = "thrown" /\ Len(attempts[c]) >= 1) =>
      out[c] = Err(AxiosError(Len(attempts[c]), Last(attempts[c])))

C3_Witness ==
  \E c \in Calls :
    /\ pc[c] = "thrown"
    /\ Len(attempts[c]) = 3
    /\ attempts[c][1] # attempts[c][3]

\* C4: the URL is /{administrationId}/{path} with exactly one leading slash
\* of the path removed: a call with path "/" + p targets the same URL as a
\* call with path p (p without leading slash), every attempt of a call
\* targets the same URL, and a path with two leading slashes keeps the second.
C4_LeadingSlashStripped ==
  /\ \A c \in Calls, d \in Calls :
       ( /\ Len(sent[c]) >= 1 /\ Len(sent[d]) >= 1
         /\ path[c] = <<"/">> \o path[d]
         /\ (path[d] = <<>> \/ path[d][1] # "/") ) =>
       \A i \in 1..Len(sent[c]), j \in 1..Len(sent[d]) :
         sent[c][i].url = sent[d][j].url
  /\ \A c \in Calls :
       (Len(sent[c]) >= 1 /\ Len(path[c]) >= 2 /\ path[c][1] = "/" /\ path[c][2] = "/") =>
         sent[c][1].url = <<"/", env.admin, "/">> \o Tail(path[c])
  /\ \A c \in Calls :
       (Len(sent[c]) >= 1 /\ (path[c] = <<>> \/ path[c][1] # "/")) =>
         sent[c][1].url = <<"/", env.admin, "/">> \o path[c]

C4_Witness ==
  \E c \in Calls, d \in Calls :
    /\ path[c] = <<"/", "contacts">> /\ path[d] = <<"contacts">>
    /\ Len(sent[c]) >= 1 /\ Len(sent[d]) >= 1
    /\ sent[c][1].url = sent[d][1].url

\* C5: request issues an HTTP request with the given method and body to the
\* administration-scoped path for each of get, post, put and delete, and
\* returns the response data when the attempt succeeds: no call of request
\* ends without an HTTP attempt.
C5_AllMethodsIssued ==
  \A c \in Calls :
    (entry[c] = "request" /\ pc[c] # "idle") =>
      /\ Len(sent[c]) >= 1
      /\ sent[c][1].method = method[c]
      /\ sent[c][1].data = data[c]
      /\ pc[c] = "returned" => out[c] = Value(remote)

\* C6: a convenience accessor behaves as request('get', <its fixed path>):
\* the same requests are issued, and under the same sequence of HTTP
\* outcomes the same backoff delays are scheduled and the same result is
\* returned or raised.
C6_AccessorIsRequest ==
  \A c \in Calls, d \in Calls :
    ( /\ entry[c] \in AccessorNames
      /\ entry[d] = "request" /\ method[d] = "get"
      /\ path[d] = AccessorPath(entry[c], args[c].id)
      /\ args[d].retries = DefaultRetries
      /\ attempts[c] = attempts[d] ) =>
        /\ delays[c] = delays[d]
        /\ IsPrefix(sent[c], sent[d]) \/ IsPrefix(sent[d], sent[c])
        /\ Done(c) <=> Done(d)
        /\ out[c] = out[d]

C6_Witness ==
  \E c \in Calls, d \in Calls :
    /\ variant = "retry"
    /\ entry[c] = "getContact" /\ entry[d] = "request"
    /\ path[d] = AccessorPath("getContact", args[c].id)
    /\ attempts[c] = <<500, 500, 200>> /\ attempts[d] = attempts[c]
    /\ delays[c] = <<1000, 2000>>
    /\ pc[c] = "returned"

----------------------------------------------------------------------------
(* SpecOps: one call of a list operation *)

OptNums == {Absent} \cup {Some(n) : n \in 0..MaxPage}

PageOpts == [page : OptNums, perPage : OptNums]

ListOptions(name) ==
  CASE name = "listContacts" ->
         {po @@ [filter |-> f, query |-> q, include_archived |-> ia, todo |-> td] :
            po \in PageOpts, f \in {Absent, Some(""), Some("first_name:x")},
            q \in {Absent, Some("acme")}, ia \in {Absent, Some(FALSE), Some(TRUE)},
            td \in {Absent, Some("any")}}
    [] name \in {"listInvoices", "listProjects"} ->
         {po @@ [state |-> st] : po \in PageOpts, st \in {Absent, Some("all"), Some("open"), Some("draft")}}
    [] name = "listTimeEntries" ->
         {po @@ [projectId |-> pj, startDate |-> sd, endDate |-> ed] :
            po \in PageOpts, pj \in {Absent, Some("p1")}, sd \in {Absent, Some(2)},
            ed \in {Absent, Some(3)}}
    [] OTHER -> PageOpts

ItemStates == {"open", "paid"}

\* the collections the remote may hold: item i has id i
Collections ==
  UNION {{[i \in 1..n |-> Item(i, f[i])] : f \in [1..n -> ItemStates]} : n \in 0..MaxItems}

Envs == {FullEnv, [token |-> "", admin |-> "adm"], [token |-> "tok", admin |-> ""]}

OpsStatuses == {200, 404, 500}

InitOps ==
  /\ variant \in {"retry", "plain"}
  /\ env \in Envs
  /\ remote \in Collections
  /\ IdleCalls

ListCall ==
  /\ pc["c1"] = "idle"
  /\ \E name \in ListNames : \E o \in ListOptions(name) :
       listOperation("c1", name, o)

OpsRespond == \E s \in OpsStatuses : HttpRespond("c1", s)

OpsBackoff == BackoffElapsed("c1")

WriteBodies == {[t |-> "obj"], [t |-> "obj", company_name |-> "Acme"]}

WriteCall ==
  /\ pc["c1"] = "idle"
  /\ \E name \in WriteNames, id \in Ids, d \in WriteBodies :
       writeOperation("c1", name, IF name \in CreateNames THEN <<>> ELSE id, d)

\* ids asked for: the ids the collection may hold and one it never holds
ScanIds == 1..(MaxItems + 1)

ScanCall ==
  /\ pc["c1"] = "idle"
  /\ \E name \in ScanNames, id \in ScanIds : scanOperation("c1", name, id)

NextOps == ListCall \/ WriteCall \/ ScanCall \/ OpsRespond \/ OpsBackoff

SpecOps == InitOps /\ [][NextOps]_vars

----------------------------------------------------------------------------
(* SpecTools: one call of the tool-call handler *)

\* names a caller may send: every listed tool and names of no tool
ToolNamesSent == HandledTools \cup {"delete_contact", ""}

ToolBodies ==
  {NoData, [t |-> "obj"],
   [t |-> "str", parse |-> Some([t |-> "obj"])],
   [t |-> "str", parse |-> Absent]}

ToolArgs(name) ==
  CASE name \in GetTools ->
         {ArgsUndefined, NoArgs} \cup {[id |-> id] : id \in Ids}
           \cup {[id |-> id, verbose |-> TRUE] : id \in Ids}
    [] name = "moneybird_request" ->
         {ArgsUndefined} \cup
         [method : Methods, path : {<<"contacts">>, <<"/", "contacts">>},
          data : ToolBodies]
    [] OTHER -> {ArgsUndefined, NoArgs, [verbose |-> TRUE]}

\* collection sizes around the chunk threshold
ToolSizes == {0, 1, ChunkSize - 1, ChunkSize, ChunkSize + 1, 2 * ChunkSize + 1}

InitTools ==
  /\ variant \in {"retry", "plain"}
  /\ env = FullEnv
  /\ remote \in {[i \in 1..n |-> Item(i, "open")] : n \in ToolSizes}
  /\ IdleCalls

ToolCall ==
  /\ pc["c1"] = "idle"
  /\ \E name \in ToolNamesSent : \E a \in ToolArgs(name) : toolCall("c1", name, a)

ToolsRespond == \E s \in OpsStatuses : HttpRespond("c1", s)

ToolsBackoff == BackoffElapsed("c1")

NextTools == ToolCall \/ ToolsRespond \/ ToolsBackoff

SpecTools == InitTools /\ [][NextTools]_vars

----------------------------------------------------------------------------
(* SpecToolPair: two concurrent calls of the tool-call handler *)

PairToolNames == {"list_contacts", "list_products", "get_contact"}

InitToolPair ==
  /\ variant \in {"retry", "plain"}
  /\ env = FullEnv
  /\ remote \in {[i \in 1..n |-> Item(i, "open")] : n \in 0..1}
  /\ IdleCalls

ToolPairCall ==
  \E c \in Calls :
    /\ pc[c] = "idle"
    /\ \E name \in PairToolNames :
         toolCall(c, name, IF name \in GetTools THEN [id |-> <<"7">>] ELSE NoArgs)

ToolPairRespond == \E c \in Calls, s \in OpsStatuses : HttpRespond(c, s)

ToolPairBackoff == \E c \in Calls : BackoffElapsed(c)

NextToolPair == ToolPairCall \/ ToolPairRespond \/ ToolPairBackoff

SpecToolPair == InitToolPair /\ [][NextToolPair]_vars

----------------------------------------------------------------------------
(* SpecChunk: chunkResponse applied to arrays and to a value of another kind *)

MaxChunkLen == 6     \* longest array handed to chunkResponse
MaxChunk == 3        \* largest explicit maxSize

ChunkInputs ==
  {JsArray([i \in 1..n |-> Item(i, "open")]) : n \in 0..MaxChunkLen} \cup {NotArray}

ChunkSizes == {Absent} \cup {Some(k) : k \in 1..MaxChunk}

ChunkCall ==
  \E c \in Calls, d \in ChunkInputs, k \in ChunkSizes : chunkCall(c, d, k)

NextChunk == ChunkCall

SpecChunk == Init /\ [][NextChunk]_vars

----------------------------------------------------------------------------
(* SpecTerm: one call of request, every attempt answered and every backoff  *)
(* timer fired in the end (axios settles each request within its timeout,   *)
(* setTimeout fires)                                                        *)

TermCall ==
  \E m \in Methods, d \in Bodies, n \in 0..MaxRetries :
    request("c1", moneybirdClient, m, <<"contacts">>, d, n)

TermRespond == \E s \in Statuses : HttpRespond("c1", s)

TermBackoff == BackoffElapsed("c1")

NextTerm == TermCall \/ TermRespond \/ TermBackoff

SpecTerm ==
  Init /\ [][NextTerm]_vars /\ WF_vars(TermRespond) /\ WF_vars(TermBackoff)

----------------------------------------------------------------------------
(* SpecClient: calls of getClient, resetClient and setClient *)

MaxConstructed == 2  \* most clients getClient constructs in one behaviour

ClientParams == [token : {"", "tok2"}, admin : {"", "adm2"}]

\* an instance a test installs with setClient
InjectedClients == {MoneybirdClient("tok3", "adm3")}

InitClient ==
  /\ variant \in {"retry", "plain"}
  /\ env \in Envs
  /\ remote = <<>>
  /\ IdleCalls

GetClientCall ==
  /\ constructed < MaxConstructed
  /\ \E c \in Calls, params \in ClientParams : getClientCall(c, params)

ResetClientCall == resetClient

SetClientCall == \E x \in InjectedClients : setClient(x)

NextClient == GetClientCall \/ ResetClientCall \/ SetClientCall

SpecClient == InitClient /\ [][NextClient]_vars

----------------------------------------------------------------------------
(* Properties of the list operations *)

ListReturned(c) == entry[c] \in ListNames /\ pc[c] = "returned"

\* an item passes the filters the options of the operation ask for
Keeps(name, o, x) ==
  CASE name \in {"listInvoices", "listProjects"} ->
         o.state = Absent \/ o.state[1] = "all" \/ x.state = o.state[1]
    [] name = "listTimeEntries" ->
         /\ o.projectId = Absent \/ x.project_id = o.projectId[1]
         /\ o.startDate = Absent \/ x.started_at >= o.startDate[1]
         /\ o.endDate = Absent \/ x.started_at <= o.endDate[1]
    [] OTHER -> TRUE

\* the fetched items that pass the filters, in their original order
FilteredSet(c) == SelectSeq(remote, LAMBDA x : Keeps(entry[c], args[c], x))

PageFields == {"page", "perPage", "totalCount", "totalPages"}

\* C7: a list operation (contacts in plain mode) called with page p >= 1 and
\* perPage k >= 1 over a filtered set F of M items returns exactly
\* F[(p-1)k+1 .. min(pk, M)] in order, totalCount = M and totalPages =
\* ceil(M/k); the slice is empty when (p-1)k >= M.
C7_PaginationLaw ==
  \A c \in Calls :
    ( /\ ListReturned(c)
      /\ ~FilterMode(entry[c], args[c])
      /\ args[c].page # Absent /\ args[c].perPage # Absent
      /\ args[c].page[1] >= 1 /\ args[c].perPage[1] >= 1 ) =>
    LET p == args[c].page[1]
        k == args[c].perPage[1]
        F == FilteredSet(c)
        M == Len(F)
        lo == (p - 1) * k
        hi == Min(p * k, M)
        n == IF hi > lo THEN hi - lo ELSE 0
        r == out[c].val
    IN /\ r[ItemsKey(entry[c])] = [i \in 1..n |-> F[lo + i]]
       /\ lo >= M => r[ItemsKey(entry[c])] = <<>>
       /\ r.totalCount = M
       /\ r.totalPages * k >= M
       /\ (r.totalPages - 1) * k < M
       /\ r.page = p /\ r.perPage = k

C7_Witness ==
  \E c \in Calls :
    /\ ListReturned(c)
    /\ entry[c] = "listInvoices"
    /\ args[c].page = Some(2) /\ args[c].perPage = Some(1)
    /\ args[c].state = Some("open")
    /\ Len(remote) = 3
    /\ remote[2].state = "paid"
    /\ Len(FilteredSet(c)) = 2
    /\ out[c].val["invoices"] = <<remote[3]>>
    /\ out[c].val.totalCount = 2
    /\ out[c].val.totalPages = 2

\* C8: when page or perPage is not supplied, a list operation returns every
\* item that passes the filters, in order, and its result carries no page,
\* perPage, totalCount or totalPages field.
C8_NoPartialPagination ==
  \A c \in Calls :
    ( /\ ListReturned(c)
      /\ args[c].page = Absent \/ args[c].perPage = Absent ) =>
    LET r == out[c].val
    IN /\ DOMAIN r \cap PageFields = {}
       /\ r[ItemsKey(entry[c])] =
            IF FilterMode(entry[c], args[c]) THEN remote ELSE FilteredSet(c)

C8_Witness ==
  \E c \in Calls :
    /\ ListReturned(c)
    /\ entry[c] = "listProducts"
    /\ args[c].page = Some(2) /\ args[c].perPage = Absent
    /\ Len(remote) = 3
    /\ out[c].val = ("products" :> remote)

----------------------------------------------------------------------------
(* Properties of the tool-call handler *)

ToolSucceeded(c) ==
  /\ pc[c] = "returned"
  /\ entry[c] \in ToolCatalog
  /\ "isError" \notin DOMAIN out[c].val

\* C9: a list tool over N fetched items returns all N items when N <= 50,
\* and exactly the first 50 with a truncation notice that mentions N and 50
\* when N > 50.
C9_ListToolsChunked ==
  \A c \in Calls :
    (ToolSucceeded(c) /\ entry[c] \in ListTools) =>
    LET t == out[c].val.content[1].text
        N == Len(remote)
    IN IF N <= 50
         THEN Len(t.json) = N /\ "notice" \notin DOMAIN t
         ELSE /\ Len(t.json) = 50
              /\ \A i \in 1..50 : t.json[i].id = remote[i].id
              /\ "notice" \in DOMAIN t
              /\ t.retrieved = N /\ t.showing = 50

\* C10: a tool call with a name outside the tool catalog returns an error
\* result (isError = TRUE) whose text names the unknown tool; the handler
\* does not throw and issues no HTTP request.
C10_UnknownToolIsErrorResult ==
  \A c \in Calls :
    (entry[c] \notin ToolCatalog \cup {"idle"}) =>
      /\ pc[c] = "returned"
      /\ out[c].kind = "value"
      /\ "isError" \in DOMAIN out[c].val
      /\ out[c].val.isError = TRUE
      /\ Len(out[c].val.content) = 1
      /\ out[c].val.content[1].type = "text"
      /\ out[c].val.content[1].text.failed = entry[c]
      /\ out[c].val.content[1].text.message = <<"Tool not found: ", entry[c]>>
      /\ sent[c] = <<>>
      /\ attempts[c] = <<>>

C10_Witness ==
  \E c \in Calls :
    /\ entry[c] = "delete_contact"
    /\ pc[c] = "returned"
    /\ out[c].val.isError = TRUE

----------------------------------------------------------------------------
(* Properties of the tool-call handler, continued *)

\* {content: [{type: "text", text}]} with or without isError
WellFormedEnvelope(v) ==
  /\ "content" \in DOMAIN v
  /\ DOMAIN v \subseteq {"content", "isError"}
  /\ Len(v.content) = 1
  /\ DOMAIN v.content[1] = {"type", "text"}
  /\ v.content[1].type = "text"

\* the work behind the tool succeeded: the tool needs no client call, or
\* the last HTTP attempt of its client call succeeded
ClientSucceeded(c) ==
  \/ entry[c] = "moneybird_assistant"
  \/ Len(attempts[c]) >= 1 /\ IsSuccess(Last(attempts[c]))

\* C11: for every tool name, argument bag (a missing one included) and
\* failure of the client call, the handler never completes by throwing: it
\* returns a well-formed envelope, which carries isError = TRUE when the
\* call failed and carries no isError when the call succeeded.
C11_HandlerAlwaysReturnsEnvelope ==
  \A c \in Calls :
    (entry[c] # "idle") =>
      /\ pc[c] # "thrown"
      /\ pc[c] = "returned" =>
           /\ out[c].kind = "value"
           /\ WellFormedEnvelope(out[c].val)
           /\ IF ClientSucceeded(c)
                THEN "isError" \notin DOMAIN out[c].val
                ELSE "isError" \in DOMAIN out[c].val /\ out[c].val.isError = TRUE

C11_Witness ==
  \E c \in Calls :
    /\ entry[c] = "get_sales_invoice"
    /\ attempts[c] = <<500, 500, 500>>
    /\ pc[c] = "returned"
    /\ out[c].val.isError = TRUE

\* a moneybird_request call whose arguments could be destructured
RequestToolCalled(c) ==
  entry[c] = "moneybird_request" /\ pc[c] # "idle" /\ args[c] # ArgsUndefined

IsString(d) == d.t = "str"

ValidJson(d) == IsString(d) /\ d.parse # Absent

\* C12: moneybird_request hands to the client the parsed value when data is
\* a string of valid JSON, the string itself when data is a string that is
\* not valid JSON, and data itself when it is not a string (absent
\* included); a string that fails to parse still reaches the client, and
\* the result is no error result when the client call succeeds.
C12_RequestDataParsing ==
  \A c \in Calls :
    RequestToolCalled(c) =>
      LET d == args[c].data
      IN /\ client[c] = moneybirdClient
         /\ method[c] = args[c].method /\ path[c] = args[c].path
         /\ ValidJson(d) => data[c] = d.parse[1]
         /\ (IsString(d) /\ ~ValidJson(d)) => data[c] = d
         /\ ~IsString(d) => data[c] = d
         /\ (IsString(d) /\ ~ValidJson(d) /\ pc[c] = "returned" /\ ClientSucceeded(c)) =>
              /\ "isError" \notin DOMAIN out[c].val
              /\ out[c].val.content[1].text = PrettyJson(remote)

C12_Witness ==
  \E c \in Calls :
    /\ RequestToolCalled(c)
    /\ IsString(args[c].data) /\ ~ValidJson(args[c].data)
    /\ data[c] = args[c].data
    /\ Len(sent[c]) = 1 /\ sent[c][1].data = args[c].data
    /\ attempts[c] = <<200>>
    /\ pc[c] = "returned"

----------------------------------------------------------------------------
(* Properties of the resource operations, continued *)

\* a listContacts call that obtained its client
ContactsCalled(c) ==
  entry[c] = "listContacts" /\ pc[c] # "idle" /\ client[c] # NoClient

FilterKeys == {"filter", "query", "include_archived", "todo"}

FilterUrl == <<"/", env.admin, "/", "contacts", "/", "filter?">>

ToFilterEndpoint(req) ==
  req.method = "get" /\ IsPrefix(FilterUrl, req.url)

\* the query string of a request to the filter endpoint
QueryOf(req) == SubSeq(req.url, Len(FilterUrl) + 1, Len(req.url))

Carries(req, k, v) == \E i \in 1..Len(QueryOf(req)) : QueryOf(req)[i] = <<k, v>>

\* the request carries every option in ks that is supplied (not undefined)
CarriesSupplied(req, o) ==
  /\ \A k \in {"filter", "query", "todo"} : IsPresent(o[k]) => Carries(req, k, o[k][1])
  /\ IsPresent(o.include_archived) =>
       Carries(req, "include_archived", IF o.include_archived[1] THEN "true" ELSE "false")
  /\ IsPresent(o.page) => Carries(req, "page", o.page[1])
  /\ IsPresent(o.perPage) => Carries(req, "per_page", o.perPage[1])

\* the statement as made: filter mode whenever one of the four is supplied,
\* exactly one GET, every supplied value carried
C13_FilterModeWhenSupplied ==
  \A c \in Calls :
    ContactsCalled(c) =>
      LET o == args[c]
      IN IF \E k \in FilterKeys : IsPresent(o[k])
           THEN /\ Len(sent[c]) = 1
                /\ ToFilterEndpoint(sent[c][1])
                /\ CarriesSupplied(sent[c][1], o)
                /\ pc[c] = "returned" => out[c].val.contacts = remote
           ELSE \A i \in 1..Len(sent[c]) : ~ToFilterEndpoint(sent[c][i])

\* an option the code treats as given: a non-empty string, true, a non-zero
\* number
Truthy(o, k) ==
  /\ IsPresent(o[k])
  /\ CASE k \in {"filter", "query", "todo"} -> o[k][1] # ""
       [] k = "include_archived" -> o[k][1]
       [] k \in {"page", "perPage"} -> o[k][1] # 0

ParamName(k) == IF k = "perPage" THEN "per_page" ELSE k

HasParam(req, k) == \E i \in 1..Len(QueryOf(req)) : QueryOf(req)[i][1] = k

\* the request carries exactly the truthy options
CarriesTruthy(req, o) ==
  /\ \A k \in FilterKeys \cup {"page", "perPage"} :
       Truthy(o, k) <=> HasParam(req, ParamName(k))
  /\ \A k \in {"filter", "query", "todo", "page", "perPage"} :
       Truthy(o, k) => Carries(req, ParamName(k), o[k][1])
  /\ Truthy(o, "include_archived") => Carries(req, "include_archived", "true")
  /\ Len(QueryOf(req)) =
       Cardinality({k \in FilterKeys \cup {"page", "perPage"} : Truthy(o, k)})

\* C13: listContacts, when filter, query or todo is a non-empty string or
\* include_archived is true, issues only GETs to the contacts filter
\* endpoint, one per attempt of the request engine and exactly one when the
\* first attempt succeeds or fails without retry, each carrying the truthy
\* options (page and per_page when non-zero) as query parameters; it never
\* requests the plain listing and returns the fetched contacts unsliced.
\* Otherwise (the four absent, empty or false) it never requests the
\* filter endpoint.
C13_FilterModeWhenTruthy ==
  \A c \in Calls :
    ContactsCalled(c) =>
      LET o == args[c]
      IN IF \E k \in FilterKeys : Truthy(o, k)
           THEN /\ Len(sent[c]) >= 1
                /\ \A i \in 1..Len(sent[c]) :
                     /\ ToFilterEndpoint(sent[c][i])
                     /\ CarriesTruthy(sent[c][i], o)
                     /\ sent[c][i].data = NoData
                /\ Len(sent[c]) \in {Len(attempts[c]), Len(attempts[c]) + 1}
                /\ (Len(attempts[c]) >= 1 /\ ~RetryableStatus(attempts[c][1])) =>
                     Len(sent[c]) = 1
                /\ variant = "plain" => Len(sent[c]) = 1
                /\ pc[c] = "returned" => out[c].val.contacts = remote
           ELSE \A i \in 1..Len(sent[c]) :
                  /\ ~ToFilterEndpoint(sent[c][i])
                  /\ sent[c][i].url = <<"/", env.admin, "/", "contacts">>

C13_Witness ==
  \E c \in Calls :
    /\ ContactsCalled(c)
    /\ args[c].filter = Absent /\ args[c].query = Absent
    /\ args[c].include_archived = Some(TRUE) /\ args[c].todo = Some("any")
    /\ args[c].page = Some(1) /\ args[c].perPage = Some(1)
    /\ Len(remote) = 3
    /\ attempts[c] = <<200>>
    /\ pc[c] = "returned"
    /\ Len(out[c].val.contacts) = 3

\* the call fetched from the filter endpoint
InFilterMode(c) == Len(sent[c]) >= 1 /\ ToFilterEndpoint(sent[c][1])

\* C14: a listContacts call that fetched from the filter endpoint returns
\* the contacts as the endpoint returned them, filtered = TRUE and a
\* filterCriteria equal to the options of the call, and nothing else; a
\* call that fetched the plain listing returns no filtered and no
\* filterCriteria field.
C14_FilterResultShape ==
  \A c \in Calls :
    (ContactsCalled(c) /\ pc[c] = "returned") =>
      LET r == out[c].val
      IN IF InFilterMode(c)
           THEN /\ DOMAIN r = {"contacts", "filtered", "filterCriteria"}
                /\ r.contacts = remote
                /\ r.filtered = TRUE
                /\ r.filterCriteria = args[c]
           ELSE /\ "contacts" \in DOMAIN r
                /\ "filtered" \notin DOMAIN r
                /\ "filterCriteria" \notin DOMAIN r

C14_Witness ==
  \E c \in Calls :
    /\ ContactsCalled(c) /\ pc[c] = "returned"
    /\ InFilterMode(c)
    /\ args[c].query = Some("acme") /\ args[c].page = Some(2)
    /\ args[c].perPage = Some(1)
    /\ Len(remote) = 2
    /\ out[c].val.contacts = remote
    /\ out[c].val.filterCriteria.page = Some(2)

\* a create or update call that obtained its client
WriteCalled(c) ==
  entry[c] \in WriteNames /\ pc[c] # "idle" /\ client[c] # NoClient

\* C15: every create and update operation sends the caller's data as the
\* single value of an object keyed by the resource's singular name, with
\* POST to the collection path for create and PUT to {collection}/{id} for
\* update, and returns the client's response unchanged.
C15_WriteOperationsSend ==
  \A c \in Calls :
    WriteCalled(c) =>
      /\ Len(sent[c]) >= 1
      /\ \A i \in 1..Len(sent[c]) :
           /\ sent[c][i].method = (IF entry[c] \in CreateNames THEN "post" ELSE "put")
           /\ sent[c][i].url =
                <<"/", env.admin, "/", WriteCollection(entry[c])>>
                  \o (IF entry[c] \in CreateNames THEN <<>> ELSE <<"/">> \o args[c].id)
           /\ DOMAIN sent[c][i].data = {WriteKey(entry[c])}
           /\ sent[c][i].data[WriteKey(entry[c])] = args[c].data
      /\ pc[c] = "returned" => out[c] = Value(remote)

\* a get-by-scan call whose collection was fetched
ScanFetched(c) ==
  /\ entry[c] \in ScanNames
  /\ Len(attempts[c]) >= 1 /\ IsSuccess(Last(attempts[c]))

HoldsId(items, id) == \E i \in 1..Len(items) : items[i].id = id

\* C16: for project, product, financial account and time entry, get(id)
\* returns the first fetched entity whose id equals the requested id, and
\* fails with an error of the NotFound kind when the fetched collection
\* holds no entity with that id (the empty collection included).
C16_ScanGetOrNotFound ==
  \A c \in Calls :
    ScanFetched(c) =>
      IF HoldsId(remote, args[c].id)
        THEN /\ pc[c] = "returned"
             /\ out[c].val.id = args[c].id
             /\ \E i \in 1..Len(remote) :
                  /\ out[c].val = remote[i]
                  /\ \A j \in 1..(i - 1) : remote[j].id # args[c].id
        ELSE /\ pc[c] = "thrown"
             /\ out[c].err.name = "MoneybirdResourceNotFoundError"

FilteringLists == {"listInvoices", "listProjects", "listTimeEntries"}

\* the positions of the fetched collection that pass every filter asked for
Passing(c) == {i \in 1..Len(remote) : Keeps(entry[c], args[c], remote[i])}

\* the rank of position i among the passing positions
Rank(c, i) == Cardinality({m \in Passing(c) : m <= i})

\* C17: in list operations with filters (invoice state, project state,
\* time-entry projectId / startDate / endDate) pagination comes after the
\* filters: the j-th returned item is the passing item of rank
\* (page - 1) * perPage + j, the page holds no item that fails a filter,
\* and totalCount and totalPages count the passing items, not the fetched
\* collection.
C17_FiltersBeforePagination ==
  \A c \in Calls :
    (ListReturned(c) /\ entry[c] \in FilteringLists) =>
      LET r == out[c].val
          items == r[ItemsKey(entry[c])]
          paged == "page" \in DOMAIN r
          offset == IF paged THEN (r.page - 1) * r.perPage ELSE 0
          M == Cardinality(Passing(c))
      IN /\ \A j \in 1..Len(items) :
              \E i \in Passing(c) : items[j] = remote[i] /\ Rank(c, i) = offset + j
         /\ paged <=> (TruthyNum(args[c].page) /\ TruthyNum(args[c].perPage))
         /\ paged =>
              /\ r.totalCount = M
              /\ r.totalPages * r.perPage >= M
              /\ (r.totalPages - 1) * r.perPage < M
              /\ Len(items) = IF M - offset < 0 THEN 0 ELSE Min(r.perPage, M - offset)
         /\ ~paged => Len(items) = M

C17_Witness ==
  \E c \in Calls :
    /\ entry[c] = "listTimeEntries" /\ pc[c] = "returned"
    /\ args[c].projectId = Some("p1")
    /\ args[c].startDate = Some(2) /\ args[c].endDate = Some(3)
    /\ args[c].page = Some(2) /\ args[c].perPage = Some(1)
    /\ Len(remote) = 3
    /\ Passing(c) = {1}
    /\ out[c].val.timeEntries = <<>>
    /\ out[c].val.totalCount = 1 /\ out[c].val.totalPages = 1

\* the keys of the arguments object
ArgKeys(a) == IF a \in {ArgsUndefined, NoArgs} THEN {} ELSE DOMAIN a

\* the arguments violate the declared input schema: a required property
\* is missing or an undeclared property is present
ViolatesSchema(name, a) ==
  \/ ~(SchemaRequired(name) \subseteq ArgKeys(a))
  \/ ~(ArgKeys(a) \subseteq SchemaProperties(name))

\* C18: the handler validates the arguments against the declared input
\* schema of the tool before invoking any client operation: a call whose
\* arguments violate the schema returns an error result and issues no HTTP
\* request.
C18_ArgumentsValidated ==
  \A c \in Calls :
    (entry[c] \in ToolCatalog /\ pc[c] # "idle" /\ ViolatesSchema(entry[c], args[c])) =>
      /\ sent[c] = <<>>
      /\ pc[c] = "returned"
      /\ "isError" \in DOMAIN out[c].val
      /\ out[c].val.isError = TRUE

\* an error result for an error raised by the client call
ClientErrorResult(c) ==
  /\ entry[c] \in ToolCatalog /\ pc[c] = "returned"
  /\ "isError" \in DOMAIN out[c].val
  /\ Len(attempts[c]) >= 1

\* C19: the text of the error result contains the message of the error
\* that reached the handler, its kind and, when the error has a response
\* payload, the status and the data of the payload.
C19_ErrorTextKeepsAll ==
  \A c \in Calls :
    ClientErrorResult(c) =>
      LET e == AxiosError(Len(attempts[c]), Last(attempts[c]))
          t == out[c].val.content[1].text
      IN /\ "message" \in DOMAIN t /\ t.message = e.message
         /\ "kind" \in DOMAIN t /\ t.kind = e.name
         /\ HasResponse(e) =>
              /\ "status" \in DOMAIN t /\ t.status = ErrorResponse(e).status
              /\ "details" \in DOMAIN t /\ t.details = ErrorResponse(e).data

----------------------------------------------------------------------------
(* Properties of the request engine, continued *)

\* the typed error the error taxonomy has for an HTTP status
KindOfStatus(s) ==
  CASE s = 404 -> "MoneybirdResourceNotFoundError"
    [] s = 401 -> "MoneybirdAuthenticationError"
    [] s = 403 -> "MoneybirdPermissionError"
    [] s = 409 -> "MoneybirdConflictError"
    [] s = 429 -> "MoneybirdRateLimitError"
    [] s \in {400, 422} -> "MoneybirdValidationError"
    [] OTHER -> "MoneybirdError"

\* C20: a terminal HTTP failure of request is raised as a typed error
\* whose kind follows from the HTTP status (404 NotFound, 401
\* Authentication, 403 Permission, 409 Conflict, 429 RateLimit, validation
\* failures Validation, everything else Generic); getContact and
\* getSalesInvoice for an absent id (404) fail with the NotFound kind.
C20_TypedErrorByStatus ==
  \A c \in Calls :
    (pc[c] = "thrown" /\ Len(attempts[c]) >= 1) =>
      /\ isMoneybirdError(out[c].err)
      /\ out[c].err.name = KindOfStatus(Last(attempts[c]))
      /\ (entry[c] \in {"getContact", "getSalesInvoice"} /\ Last(attempts[c]) = 404) =>
           out[c].err.name = "MoneybirdResourceNotFoundError"

----------------------------------------------------------------------------
(* Properties of the shared client (services/client.ts) *)

GetClientReturned(c) == entry[c] = "getClient" /\ pc[c] = "returned"

\* the credentials getClient(params) asks for: the parameter, else the
\* environment's value
WantedToken(params) == IF params.token # "" THEN params.token ELSE env.token

WantedAdmin(params) == IF params.admin # "" THEN params.admin ELSE env.admin

\* C21: after any sequence of getClient, resetClient and setClient calls
\* the instance getClient(params) returned is bound to the API token and
\* the administration id given in params (the environment's values where
\* params gives none), and two calls asking for the same credentials hold
\* the same instance.
C21_ClientBoundToParams ==
  /\ \A c \in Calls :
       GetClientReturned(c) =>
         /\ out[c].val.apiToken = WantedToken(args[c])
         /\ out[c].val.administrationId = WantedAdmin(args[c])
  /\ \A c \in Calls, d \in Calls :
       ( /\ GetClientReturned(c) /\ GetClientReturned(d)
         /\ WantedToken(args[c]) = WantedToken(args[d])
         /\ WantedAdmin(args[c]) = WantedAdmin(args[d]) ) => out[c].val = out[d].val

\* a call that failed in getClient: it threw before any client call
FailedInGetClient(c) ==
  /\ entry[c] \in {"getClient"} \cup ListNames \cup WriteNames \cup ScanNames
  /\ pc[c] = "thrown"
  /\ client[c] = NoClient

\* C22: a getClient call that finds no stored client and misses the API
\* token or the administration id fails with an authentication-class error
\* that names the missing credential; no HTTP request is issued and no
\* client instance is constructed.
C22_MissingCredentialIsAuthError ==
  \A c \in Calls :
    FailedInGetClient(c) =>
      /\ out[c].err.name = "MoneybirdAuthenticationError"
      /\ out[c].err.message \in {<<"MONEYBIRD_API_TOKEN is required">>,
                                 <<"MONEYBIRD_ADMINISTRATION_ID is required">>}
      /\ (WantedToken(IF entry[c] = "getClient" THEN args[c] ELSE NoParams) = ""
            \/ WantedAdmin(IF entry[c] = "getClient" THEN args[c] ELSE NoParams) = "")
      /\ sent[c] = <<>>
      /\ attempts[c] = <<>>

\* one step that is a getClient(params) call of c
IsGetClient(c, params) == getClientCall(c, params)

\* C28: while a client instance is stored, a getClient call returns that
\* instance, whatever its parameters, constructs nothing and leaves the
\* stored instance in place; with none stored (initially or after
\* resetClient) a successful getClient constructs one client from its own
\* parameters or the environment and stores it; setClient(x) stores x, so
\* that the next getClient returns x; resetClient stores none.
C28_StoredInstanceReused ==
  [][ /\ \A c \in Calls, params \in ClientParams :
           IsGetClient(c, params) =>
             IF clientInstance # NoClient
               THEN /\ out'[c] = Value(clientInstance)
                    /\ clientInstance' = clientInstance
                    /\ constructed' = constructed
               ELSE \/ /\ out'[c].kind = "value"
                       /\ out'[c].val = MoneybirdClient(WantedToken(params), WantedAdmin(params))
                       /\ clientInstance' = out'[c].val
                       /\ constructed' = constructed + 1
                    \/ /\ out'[c].kind = "error"
                       /\ clientInstance' = NoClient
                       /\ constructed' = constructed
      /\ \A x \in InjectedClients :
           setClient(x) => (clientInstance' = x /\ constructed' = constructed)
      /\ resetClient => (clientInstance' = NoClient /\ constructed' = constructed)
    ]_vars

C28_Witness ==
  \E c \in Calls :
    /\ GetClientReturned(c)
    /\ args[c] = [token |-> "tok2", admin |-> "adm2"]
    /\ out[c].val \in InjectedClients
    /\ clientInstance = out[c].val
    /\ constructed = 1

----------------------------------------------------------------------------
(* Properties of concurrent calls *)

\* what a call is asked to do
Asked(c) == <<entry[c] \in AccessorNames \cup {"request"}, method[c], path[c], data[c]>>

\* the state a call keeps for itself
OwnState(c) == <<retries[c], sent[c], attempts[c], delays[c], pc[c], out[c]>>

\* the retry count the call started with
InitialRetries(c) ==
  IF variant = "plain" THEN 0
  ELSE IF entry[c] = "request" THEN args[c].retries ELSE DefaultRetries

\* C23: under any interleaving of two calls on the one client instance,
\* the attempts, backoff delays and result of a call depend only on the
\* HTTP outcomes of its own attempts: two calls asked the same thing with
\* the same outcomes so far are in the same state, the remaining retry
\* count of a call is its initial count less its own retries, and a step
\* of one call leaves the state of the other untouched.
C23_CallsAreIndependent ==
  /\ [](\A c \in Calls, d \in Calls :
          /\ (Asked(c) = Asked(d) /\ pc[c] # "idle" /\ pc[d] # "idle"
                /\ attempts[c] = attempts[d] /\ Len(sent[c]) = Len(sent[d])) =>
               (delays[c] = delays[d] /\ pc[c] = pc[d] /\ out[c] = out[d]
                  /\ retries[c] = retries[d])
          /\ (pc[c] # "idle") => retries[c] = InitialRetries(c) - Len(delays[c])
                                   + (IF pc[c] = "wait" THEN 1 ELSE 0))
  /\ [][\A c \in Calls, d \in Calls :
          (c # d /\ OwnState(c)' # OwnState(c)) => OwnState(d)' = OwnState(d)]_vars

C23_Witness ==
  /\ variant = "retry"
  /\ Asked("c1") = Asked("c2")
  /\ attempts["c1"] = <<500, 500, 500>> /\ pc["c1"] = "thrown"
  /\ attempts["c2"] = <<500, 200>> /\ pc["c2"] = "returned"
  /\ delays["c2"] = <<1000>>

----------------------------------------------------------------------------
(* Properties of the request engine: backoff and termination *)

\* C24: for every initial retry count n the backoff delays of a call whose
\* attempts keep failing retryably are 1000 ms, 2000 ms, 4000 ms, ...: the
\* first delay is 1000 ms and each later delay doubles the one before,
\* and there are at most n of them.
C24_BackoffStartsAtBase ==
  \A c \in Calls :
    (variant = "retry" /\ entry[c] = "request" /\ AllRetryable(c)) =>
      /\ Len(delays[c]) <= args[c].retries
      /\ \A i \in 1..Len(delays[c]) :
           /\ i = 1 => delays[c][i] = 1000
           /\ i > 1 => delays[c][i] = 2 * delays[c][i - 1]

RequestCalled(c) == entry[c] = "request" /\ pc[c] # "idle"

\* C25: every call of request with retry count n terminates whatever the
\* HTTP outcomes: it makes at most n + 1 attempts, the remaining retry
\* count only ever decreases by one and stays within 0..n, no attempt
\* follows a successful one, and the call returns the data of its first
\* successful attempt.
C25_RequestTerminates ==
  /\ [](\A c \in Calls :
          RequestCalled(c) =>
            /\ Len(attempts[c]) <= args[c].retries + 1
            /\ Len(sent[c]) <= args[c].retries + 1
            /\ retries[c] >= 0 /\ retries[c] <= args[c].retries
            /\ \A i \in 1..(Len(attempts[c]) - 1) : ~IsSuccess(attempts[c][i])
            /\ (Len(attempts[c]) >= 1 /\ IsSuccess(Last(attempts[c]))) =>
                 /\ pc[c] = "returned"
                 /\ out[c] = Value(remote)
                 /\ Len(sent[c]) = Len(attempts[c]))
  /\ [][\A c \in Calls :
          (RequestCalled(c) /\ retries'[c] # retries[c]) =>
            (retries'[c] = retries[c] - 1 /\ Len(sent'[c]) = Len(sent[c]) + 1)]_vars
  /\ \A c \in Calls : (pc[c] \in {"attempt", "wait"}) ~> Done(c)

C25_Witness ==
  \E c \in Calls :
    /\ variant = "retry" /\ entry[c] = "request"
    /\ args[c].retries = 3
    /\ attempts[c] = <<500, 429, NoStatus, 200>>
    /\ retries[c] = 0
    /\ pc[c] = "returned"

----------------------------------------------------------------------------
(* Properties of the progress timer *)

InFlight(c) == pc[c] \in {"attempt", "wait"}

\* C26: the progress timer of a list_contacts call runs from the start of
\* the call while its fetch is in flight and is cleared when the call
\* completes, after a successful fetch and after a failed one; no other
\* tool starts a timer, and the completion of one call clears no timer of
\* a concurrent call.
C26_ProgressTimerCleared ==
  \A c \in Calls :
    /\ Done(c) => ~progress[c]
    /\ progress[c] => (entry[c] = "list_contacts" /\ InFlight(c))
    /\ (entry[c] = "list_contacts" /\ InFlight(c)) => progress[c]

C26_Witness ==
  /\ variant = "retry"
  /\ entry["c1"] = "list_contacts" /\ entry["c2"] = "list_contacts"
  /\ attempts["c1"] = <<500, 500, 500>> /\ pc["c1"] = "returned"
  /\ "isError" \in DOMAIN out["c1"].val
  /\ ~progress["c1"]
  /\ attempts["c2"] = <<500>> /\ pc["c2"] = "wait"
  /\ progress["c2"]

----------------------------------------------------------------------------
(* Properties of the tool catalog *)

ListedNames == {ListedTools[i] : i \in 1..Len(ListedTools)}

\* the error result the handler gives for a name it has no case for
UnknownToolResult(name) ==
  ErrorEnvelope([failed |-> name, message |-> <<"Tool not found: ", name>>])

\* C27: the names the tool-list handler returns are pairwise distinct,
\* every listed name is handled by the tool-call handler (a call of it is
\* never answered with the unknown-tool error) and every name the
\* tool-call handler handles is listed (a call of an unlisted name is
\* answered with the unknown-tool error).
C27_CatalogMatchesDispatcher ==
  /\ \A i \in 1..Len(ListedTools), j \in 1..Len(ListedTools) :
       i # j => ListedTools[i] # ListedTools[j]
  /\ ListedNames = HandledTools
  /\ \A c \in Calls :
       (pc[c] = "returned") =>
         IF entry[c] \in ListedNames
           THEN out[c].val # UnknownToolResult(entry[c])
           ELSE out[c].val = UnknownToolResult(entry[c])

C27_Witness ==
  \E c \in Calls :
    /\ entry[c] = "moneybird_assistant"
    /\ pc[c] = "returned"
    /\ out[c].val = Envelope(AssistantText)

----------------------------------------------------------------------------
(* Properties of chunkResponse *)

ChunkReturned(c) == entry[c] = "chunkResponse" /\ pc[c] = "returned"

MaxSizeOf(c) == IF IsPresent(args[c].maxSize) THEN args[c].maxSize[1] ELSE 100

RECURSIVE Concat(_)
Concat(chunks) ==
  IF chunks = <<>> THEN <<>> ELSE Head(chunks).items \o Concat(Tail(chunks))

\* the chunks partition the array d into runs of k items, the last run
\* holding at least least items
Partitions(chunks, d, k, least) ==
  /\ \A i \in 1..Len(chunks) : chunks[i].isArray
  /\ Concat(chunks) = d.items
  /\ \A i \in 1..(Len(chunks) - 1) : Len(chunks[i].items) = k
  /\ Len(chunks) >= 1
  /\ Len(Last(chunks).items) >= least /\ Len(Last(chunks).items) <= k

\* the statement as made: the last chunk of every array holds at least one
\* item
C29_ChunksPartitionNonEmptyLast ==
  \A c \in Calls :
    ChunkReturned(c) =>
      LET d == args[c].data
          k == MaxSizeOf(c)
          chunks == out[c].val
      IN /\ d.isArray => Partitions(chunks, d, k, 1)
         /\ (~d.isArray \/ Len(d.items) <= k) => chunks = <<d>>

\* C29: chunkResponse(data, maxSize) with maxSize >= 1 partitions an
\* array: the chunks concatenated in order give back data, every chunk but
\* the last has maxSize items, the last has between 1 and maxSize items,
\* or none when data is the empty array; when data is not an array or has
\* at most maxSize items the result is the one-element list [data].
C29_ChunksPartition ==
  \A c \in Calls :
    ChunkReturned(c) =>
      LET d == args[c].data
          k == MaxSizeOf(c)
          chunks == out[c].val
      IN /\ d.isArray => Partitions(chunks, d, k, IF d.items = <<>> THEN 0 ELSE 1)
         /\ (~d.isArray \/ Len(d.items) <= k) => chunks = <<d>>

C29_Witness ==
  \E c \in Calls :
    /\ ChunkReturned(c)
    /\ Len(args[c].data.items) = 5 /\ args[c].maxSize = Some(2)
    /\ Len(out[c].val) = 3
    /\ Len(out[c].val[3].items) = 1
    /\ out[c].val[3].items[1].id = 5

----------------------------------------------------------------------------
(* Properties of the state filter *)

StateLists == {"listInvoices", "listProjects"}

\* C30: in listInvoices and listProjects the state 'all' and an absent
\* state give the same result, the one fixed by the fetched collection and
\* the pagination options alone; any other state keeps exactly the
\* entities whose state field equals it, unchanged and in their original
\* order.
C30_StateAllIsNoFilter ==
  \A c \in Calls :
    (ListReturned(c) /\ entry[c] \in StateLists) =>
      LET o == args[c]
          r == out[c].val
          items == r[ItemsKey(entry[c])]
          paged == TruthyNum(o.page) /\ TruthyNum(o.perPage)
          offset == IF paged THEN (o.page[1] - 1) * o.perPage[1] ELSE 0
          matching == {i \in 1..Len(remote) : remote[i].state = o.state[1]}
      IN IF o.state \in {Absent, Some("all")}
           THEN /\ \A j \in 1..Len(items) : items[j] = remote[offset + j]
                /\ Len(items) =
                     IF paged THEN (IF Len(remote) - offset < 0 THEN 0
                                    ELSE Min(o.perPage[1], Len(remote) - offset))
                     ELSE Len(remote)
                /\ paged => r.totalCount = Len(remote)
                /\ DOMAIN r = IF paged THEN {ItemsKey(entry[c])} \cup PageFields
                              ELSE {ItemsKey(entry[c])}
           ELSE /\ \A j \in 1..Len(items) :
                     \E i \in matching : items[j] = remote[i]
                /\ \A j \in 1..Len(items), k \in 1..Len(items) :
                     j < k => items[j].id < items[k].id
                /\ ~paged => Len(items) = Cardinality(matching)
                /\ paged => r.totalCount = Cardinality(matching)

C30_Witness ==
  \E c \in Calls :
    /\ entry[c] = "listInvoices" /\ pc[c] = "returned"
    /\ args[c].state = Some("all")
    /\ args[c].page = Some(1) /\ args[c].perPage = Some(2)
    /\ Len(remote) = 3
    /\ remote[1].state = "paid" /\ remote[2].state = "open"
    /\ out[c].val.invoices = <<remote[1], remote[2]>>
    /\ out[c].val.totalCount = 3

====
